---------------------------- MODULE Spec2Model ----------------------------
(***************************************************************************)
(* Model of ahxar/go-backend-service.                                      *)
(*                                                                         *)
(* Part I  (Spec, LiveSpec): the process lifecycle of cmd/server/main.go:  *)
(*   the main goroutine, the listener goroutine it spawns, the OS signal,  *)
(*   srv.Shutdown and its bounded wait, and the connections the server has *)
(*   accepted.                                                             *)
(* Part II (ReqSpec): one request at a time through the handler chain      *)
(*   built by server.New (TraceID/Tracing, Recovery, Logging, ServeMux,    *)
(*   the handlers, the service and the repository).                        *)
(***************************************************************************)
EXTENDS Integers, Sequences, FiniteSets, TLC

\* Number of connections the lifecycle model lets the server accept.
MaxConns == 2

\* Number of requests the request model serves one after another.
MaxServed == 2

\* Number of distinct trace IDs.
MaxTraceID == 2

\* Number of requests handled at the same time.
MaxConcurrent == 2

VARIABLES
    mainPc,       \* position of the main goroutine in main()
    built,        \* components main() has constructed so far, in order
    signalled,    \* the signal.NotifyContext context is done
    lnPc,         \* position of the listener goroutine (main.go:50-61)
    lasResult,    \* what srv.ListenAndServe returned ("none" while it has not)
    portFree,     \* whether net.Listen on cfg.Port can succeed
    inShutdown,   \* srv.Shutdown has been called on the server
    lnBound,      \* the listener socket is open
    timerFired,   \* the shutdownCtx deadline passed while Shutdown was waiting
    shutdownErr,  \* what srv.Shutdown returned ("none" while it has not)
    exited,       \* the process has exited
    exitCode,     \* its exit code (NoExit while running)
    exitBy,       \* the goroutine that ended the process
    conns,        \* per connection: "idle", "inflight", "responded", "aborted"
    acceptPc,     \* per connection: mainPc when it was accepted ("" if never)
    sigInflight,  \* the connections that were in flight when the signal came
    lifeLog       \* messages main() and the listener goroutine have logged

lifeVars == <<mainPc, built, signalled, lnPc, lasResult, portFree, inShutdown,
              lnBound, timerFired, shutdownErr, exited, exitCode, exitBy,
              conns, acceptPc, sigInflight, lifeLog>>


VARIABLES
    variant,          \* which server.New is built: "TraceID" or "Tracing"
    tracerProvider,   \* otel.Setup installed a tracer provider and propagator
    rpc,              \* position of the request goroutine
    depth,            \* index in Chain of the element that is running
    req,              \* the request: method, path, name, inbound traceparent
    ctxErr,           \* ctx.Err() of the request context ("none" while live)
    ctxTraceID,       \* the trace ID GetTraceID(ctx) yields (0 for "")
    resp,             \* the underlying http.ResponseWriter
    logStatus,        \* statusCode of the writer Logging wrapped
    traceStatus,      \* statusCode of the writer Tracing wrapped
    span,             \* the server span of the Tracing middleware
    rlog,             \* log records written while handling the request
    svc,              \* what Service.ProcessExample returned
    getDataCalls,     \* calls of Repository.GetData for this request
    cancelledAtEntry, \* whether ctx was done when ProcessExample began
    pend,             \* the arguments of the writeJSON call in progress
    panicAt,          \* where the panic was raised ("" if none)
    snapAtPanic,      \* the response as it was when the panic was raised
    served,           \* requests completed so far
    recoveredBefore,  \* an earlier request panicked before it wrote anything
    entered           \* the chain elements this request has entered, in order

reqVars == <<variant, tracerProvider, rpc, depth, req, ctxErr, ctxTraceID,
             resp, logStatus, traceStatus, span, rlog, svc, getDataCalls,
             cancelledAtEntry, pend, panicAt, snapAtPanic, served,
             recoveredBefore, entered>>

VARIABLES
    cpc,    \* per concurrent request: "idle", "arrived", "handling", "done"
    ctp,    \* per concurrent request: trace ID of its inbound traceparent (0: none)
    chdr    \* per concurrent request: its X-Trace-ID response header (0: not set)

traceVars == <<cpc, ctp, chdr>>

VARIABLES
    hName,  \* the handler called directly: "Health", "Ready" or "Example"
    hErr,   \* the errors the service layer returns to it, one per call
    hOut    \* per call made so far: the recorded response and the log records

mapVars == <<hName, hErr, hOut>>

VARIABLES
    env,    \* the process environment: variable name -> value ("" if unset)
    cfg     \* the *Config returned by config.Load (NoConfig before the call)

cfgVars == <<env, cfg>>

VARIABLES
    otelEnabled,  \* cfg.OtelEnabled
    otelPc,       \* telemetry: "unset", "ready", "failed", "flushed", "skipped"
    traceExp,     \* the trace exporter: "none", "open", "closed", "unflushed"
    metricExp,    \* the metric exporter: "none", "open", "closed", "unflushed"
    flushCtx,     \* the context the telemetry shutdown was called with
    flushRes      \* what the telemetry shutdown function did and returned

otelVars == <<otelEnabled, otelPc, traceExp, metricExp, flushCtx, flushRes>>

auxVars == <<traceVars, mapVars, cfgVars, otelVars>>

vars == <<lifeVars, reqVars, auxVars>>

ConnIds == 1..MaxConns

NoExit == -1

\* The six constructions of main(), in source order.
BuildOrder == <<"config", "logger", "repository", "service", "handler", "server">>

BuildPcs == {"load_config", "new_logger", "new_repository", "new_service",
             "new_handler", "new_server"}

StartingPcs == BuildPcs \cup {"notify", "go_listen"}

ShuttingDownPcs == {"begin_shutdown", "call_shutdown", "draining",
                    "shutdown_returned"}

\* Lifecycle state of the process (spec 4.4), read off the program counters.
Phase ==
    IF exited THEN "Stopped"
    ELSE IF mainPc \in StartingPcs THEN "Starting"
    ELSE IF mainPc = "wait_signal" THEN "Listening"
    ELSE "ShuttingDown"

Active == {c \in ConnIds : conns[c] = "inflight"}

\* os.Exit / return from main: the process ends and every request still in
\* flight is cut off.
ProcessExit(code, by) ==
    /\ exited' = TRUE
    /\ exitCode' = code
    /\ exitBy' = by
    /\ conns' = [c \in ConnIds |->
                    IF conns[c] = "inflight" THEN "aborted" ELSE conns[c]]

LifeInit ==
    /\ mainPc = "load_config"
    /\ built = <<>>
    /\ signalled = FALSE
    /\ lnPc = "not_started"
    /\ lasResult = "none"
    /\ portFree \in BOOLEAN
    /\ inShutdown = FALSE
    /\ lnBound = FALSE
    /\ timerFired = FALSE
    /\ shutdownErr = "none"
    /\ exited = FALSE
    /\ exitCode = NoExit
    /\ exitBy = "none"
    /\ conns = [c \in ConnIds |-> "idle"]
    /\ acceptPc = [c \in ConnIds |-> ""]
    /\ sigInflight = {}
    /\ lifeLog = {}

----------------------------------------------------------------------------
(* main(): construction, main.go:19-47 *)

NextBuildPc(pc) ==
    CASE pc = "load_config"    -> "new_logger"
      [] pc = "new_logger"     -> "new_repository"
      [] pc = "new_repository" -> "new_service"
      [] pc = "new_service"    -> "new_handler"
      [] pc = "new_handler"    -> "new_server"
      [] pc = "new_server"     -> "notify"

\* cfg := config.Load(); log := logger.New(..); repo, svc, h, srv in turn.
MainBuild ==
    /\ ~exited
    /\ mainPc \in BuildPcs
    /\ built' = Append(built, BuildOrder[Len(built) + 1])
    /\ mainPc' = NextBuildPc(mainPc)
    /\ lifeLog' = IF mainPc = "new_logger"
                     THEN lifeLog \cup {"starting server"} ELSE lifeLog
    /\ UNCHANGED <<signalled, lnPc, lasResult, portFree, inShutdown, lnBound,
                   timerFired, shutdownErr, exited, exitCode, exitBy, conns,
                   acceptPc, sigInflight,
                   reqVars, auxVars>>

\* ctx, stop := signal.NotifyContext(...)
MainNotify ==
    /\ ~exited
    /\ mainPc = "notify"
    /\ mainPc' = "go_listen"
    /\ UNCHANGED <<built, signalled, lnPc, lasResult, portFree, inShutdown,
                   lnBound, timerFired, shutdownErr, exited, exitCode, exitBy,
                   conns, acceptPc, sigInflight, lifeLog,
                   reqVars, auxVars>>

\* Mutant of MainGo: the goroutine is started before handler and server exist.
MainGoMutantEarly ==
    /\ ~exited
    /\ mainPc \in {"new_handler", "go_listen"}
    /\ lnPc = "not_started"
    /\ mainPc' = IF mainPc = "go_listen" THEN "wait_signal" ELSE mainPc
    /\ lnPc' = "spawned"
    /\ UNCHANGED <<built, signalled, lasResult, portFree, inShutdown, lnBound,
                   timerFired, shutdownErr, exited, exitCode, exitBy, conns,
                   acceptPc, sigInflight, lifeLog,
                   reqVars, auxVars>>

\* The go statement: the listener goroutine exists from here on.
MainGo ==
    /\ ~exited
    /\ mainPc = "go_listen"
    /\ mainPc' = "wait_signal"
    /\ lnPc' = "spawned"
    /\ UNCHANGED <<built, signalled, lasResult, portFree, inShutdown, lnBound,
                   timerFired, shutdownErr, exited, exitCode, exitBy, conns,
                   acceptPc, sigInflight, lifeLog,
                   reqVars, auxVars>>

\* SIGINT / SIGTERM delivered to the process once NotifyContext is registered.
Signal ==
    /\ ~exited
    /\ mainPc \notin BuildPcs \cup {"notify"}
    /\ ~signalled
    /\ signalled' = TRUE
    /\ sigInflight' = Active
    /\ UNCHANGED <<mainPc, built, lnPc, lasResult, portFree, inShutdown,
                   lnBound, timerFired, shutdownErr, exited, exitCode, exitBy,
                   conns, acceptPc, lifeLog,
                   reqVars, auxVars>>

----------------------------------------------------------------------------
(* main(): shutdown, main.go:63-81 *)

\* <-ctx.Done()
MainWait ==
    /\ ~exited
    /\ mainPc = "wait_signal"
    /\ signalled
    /\ mainPc' = "begin_shutdown"
    /\ UNCHANGED <<built, signalled, lnPc, lasResult, portFree, inShutdown,
                   lnBound, timerFired, shutdownErr, exited, exitCode, exitBy,
                   conns, acceptPc, sigInflight, lifeLog,
                   reqVars, auxVars>>

\* log.Info("shutdown signal received, ..."); context.WithTimeout(...)
MainBeginShutdown ==
    /\ ~exited
    /\ mainPc = "begin_shutdown"
    /\ mainPc' = "call_shutdown"
    /\ lifeLog' = lifeLog \cup {"shutdown signal received"}
    /\ UNCHANGED <<built, signalled, lnPc, lasResult, portFree, inShutdown,
                   lnBound, timerFired, shutdownErr, exited, exitCode, exitBy,
                   conns, acceptPc, sigInflight,
                   reqVars, auxVars>>

\* Mutant of MainCallShutdown: the server is closed at once (srv.Close), which
\* cuts off the requests in flight.
MainCallShutdownMutantClose ==
    /\ ~exited
    /\ mainPc = "call_shutdown"
    /\ mainPc' = "draining"
    /\ inShutdown' = TRUE
    /\ lnBound' = FALSE
    /\ conns' = [c \in ConnIds |->
                    IF conns[c] = "inflight" THEN "aborted" ELSE conns[c]]
    /\ UNCHANGED <<built, signalled, lnPc, lasResult, portFree, timerFired,
                   shutdownErr, exited, exitCode, exitBy, acceptPc,
                   sigInflight, lifeLog,
                   reqVars, auxVars>>

\* Mutant of MainCallShutdown: main waits for the drain without telling the
\* server to stop accepting.
MainCallShutdownMutantOpen ==
    /\ ~exited
    /\ mainPc = "call_shutdown"
    /\ mainPc' = "draining"
    /\ UNCHANGED <<built, signalled, lnPc, lasResult, portFree, inShutdown,
                   lnBound, timerFired, shutdownErr, exited, exitCode, exitBy,
                   conns, acceptPc, sigInflight, lifeLog,
                   reqVars, auxVars>>

\* srv.Shutdown(shutdownCtx) is entered: the server is marked as shutting
\* down and its listener is closed; in-flight requests are left running.
MainCallShutdown ==
    /\ ~exited
    /\ mainPc = "call_shutdown"
    /\ mainPc' = "draining"
    /\ inShutdown' = TRUE
    /\ lnBound' = FALSE
    /\ UNCHANGED <<built, signalled, lnPc, lasResult, portFree, timerFired,
                   shutdownErr, exited, exitCode, exitBy, conns, acceptPc, sigInflight,
                   lifeLog,
                   reqVars, auxVars>>

\* srv.Shutdown finds no connection active: it returns nil.
ShutdownDrained ==
    /\ ~exited
    /\ mainPc = "draining"
    /\ Active = {}
    /\ shutdownErr' = "nil"
    /\ mainPc' = "shutdown_returned"
    /\ UNCHANGED <<built, signalled, lnPc, lasResult, portFree, inShutdown,
                   lnBound, timerFired, exited, exitCode, exitBy, conns,
                   acceptPc, sigInflight, lifeLog,
                   reqVars, auxVars>>

\* cfg.ShutdownTimeout passes with a request still in flight: srv.Shutdown
\* returns the context's error.
ShutdownDeadline ==
    /\ ~exited
    /\ mainPc = "draining"
    /\ Active # {}
    /\ timerFired' = TRUE
    /\ shutdownErr' = "context deadline exceeded"
    /\ mainPc' = "shutdown_returned"
    /\ UNCHANGED <<built, signalled, lnPc, lasResult, portFree, inShutdown,
                   lnBound, exited, exitCode, exitBy, conns, acceptPc, sigInflight, lifeLog,
                   reqVars, auxVars>>

\* Mutant of MainAfterShutdown: the error of srv.Shutdown is dropped.
MainAfterShutdownMutantIgnoreErr ==
    /\ ~exited
    /\ mainPc = "shutdown_returned"
    /\ mainPc' = "exited"
    /\ lifeLog' = lifeLog \cup {"server stopped gracefully"}
    /\ ProcessExit(0, "main")
    /\ UNCHANGED <<built, signalled, lnPc, lasResult, portFree, inShutdown,
                   lnBound, timerFired, shutdownErr, acceptPc, sigInflight,
                   reqVars, auxVars>>

\* if err != nil { log.Error("shutdown error"); os.Exit(1) }
\* log.Info("server stopped gracefully"); return
MainAfterShutdown ==
    /\ ~exited
    /\ mainPc = "shutdown_returned"
    /\ mainPc' = "exited"
    /\ IF shutdownErr # "nil"
          THEN /\ lifeLog' = lifeLog \cup {"shutdown error"}
               /\ ProcessExit(1, "main")
          ELSE /\ lifeLog' = lifeLog \cup {"server stopped gracefully"}
               /\ ProcessExit(0, "main")
    /\ UNCHANGED <<built, signalled, lnPc, lasResult, portFree, inShutdown,
                   lnBound, timerFired, shutdownErr, acceptPc, sigInflight,
                   reqVars, auxVars>>

----------------------------------------------------------------------------
(* The listener goroutine, main.go:50-61 *)

\* log.Info("server listening"); srv.ListenAndServe() is entered: a server
\* already shutting down returns http.ErrServerClosed at once.
ListenerStart ==
    /\ ~exited
    /\ lnPc = "spawned"
    /\ lifeLog' = lifeLog \cup {"server listening"}
    /\ IF inShutdown
          THEN lnPc' = "returned" /\ lasResult' = "ErrServerClosed"
          ELSE lnPc' = "bind" /\ UNCHANGED lasResult
    /\ UNCHANGED <<mainPc, built, signalled, portFree, inShutdown, lnBound,
                   timerFired, shutdownErr, exited, exitCode, exitBy, conns,
                   acceptPc, sigInflight,
                   reqVars, auxVars>>

\* net.Listen, then Serve registers the listener: the bind can fail; a
\* server shut down in the meantime gives http.ErrServerClosed.
ListenerBind ==
    /\ ~exited
    /\ lnPc = "bind"
    /\ IF ~portFree
          THEN lnPc' = "returned" /\ lasResult' = "bind error"
                                  /\ UNCHANGED lnBound
          ELSE IF inShutdown
                  THEN lnPc' = "returned" /\ lasResult' = "ErrServerClosed"
                                          /\ UNCHANGED lnBound
                  ELSE lnPc' = "serve" /\ lnBound' = TRUE
                                       /\ UNCHANGED lasResult
    /\ UNCHANGED <<mainPc, built, signalled, portFree, inShutdown, timerFired,
                   shutdownErr, exited, exitCode, exitBy, conns, acceptPc, sigInflight,
                   lifeLog,
                   reqVars, auxVars>>

\* The accept loop takes a new connection and its request starts running.
Accept(c) ==
    /\ ~exited
    /\ lnPc = "serve"
    /\ lnBound
    /\ ~inShutdown
    /\ conns[c] = "idle"
    /\ conns' = [conns EXCEPT ![c] = "inflight"]
    /\ acceptPc' = [acceptPc EXCEPT ![c] = mainPc]
    /\ UNCHANGED <<mainPc, built, signalled, lnPc, lasResult, portFree,
                   inShutdown, lnBound, timerFired, shutdownErr, exited,
                   exitCode, exitBy, lifeLog, sigInflight,
                   reqVars, auxVars>>

\* A request's handler returns and its response goes out to the caller.
Respond(c) ==
    /\ ~exited
    /\ conns[c] = "inflight"
    /\ conns' = [conns EXCEPT ![c] = "responded"]
    /\ UNCHANGED <<mainPc, built, signalled, lnPc, lasResult, portFree,
                   inShutdown, lnBound, timerFired, shutdownErr, exited,
                   exitCode, exitBy, acceptPc, sigInflight, lifeLog,
                   reqVars, auxVars>>

\* Shutdown closed the listener under the accept loop: Serve returns
\* http.ErrServerClosed.
ListenerClosed ==
    /\ ~exited
    /\ lnPc = "serve"
    /\ inShutdown
    /\ lnPc' = "returned"
    /\ lasResult' = "ErrServerClosed"
    /\ UNCHANGED <<mainPc, built, signalled, portFree, inShutdown, lnBound,
                   timerFired, shutdownErr, exited, exitCode, exitBy, conns,
                   acceptPc, sigInflight, lifeLog,
                   reqVars, auxVars>>

\* if err != nil && err != http.ErrServerClosed { log.Error; os.Exit(1) }
ListenerAfterReturn ==
    /\ ~exited
    /\ lnPc = "returned"
    /\ lnPc' = "finished"
    /\ IF lasResult # "ErrServerClosed"
          THEN /\ lifeLog' = lifeLog \cup {"server error"}
               /\ ProcessExit(1, "listener")
          ELSE UNCHANGED <<lifeLog, exited, exitCode, exitBy, conns,
                   reqVars, auxVars>>
    /\ UNCHANGED <<mainPc, built, signalled, lasResult, portFree, inShutdown,
                   lnBound, timerFired, shutdownErr, acceptPc, sigInflight,
                   reqVars, auxVars>>

----------------------------------------------------------------------------
(* Part II: one request through the handler chain *)

Methods == {"GET", "POST"}

Paths == {"/health", "/ready", "/api/example", "/missing"}

\* Values of the name query parameter ("" when it is absent).
Names == {"", "Test"}

\* Trace IDs are 1..MaxTraceID; 0 stands for the empty string / no trace ID.
TraceIDs == 1..MaxTraceID

NoReq == [method |-> "", path |-> "", name |-> "", traceparent |-> 0]

\* http.ResponseWriter: the header map, whether the status line has been
\* sent, the status and headers that went out with it, and the body so far.
EmptyResp ==
    [hdr |-> [ct |-> "", trace |-> 0], wroteHeader |-> FALSE, status |-> 0,
     sentHdr |-> [ct |-> "", trace |-> 0], body |-> <<>>]

NoSpan == [started |-> FALSE, traceID |-> 0, ends |-> 0, code |-> 0,
           status |-> "unset"]

NilErr == [wrap |-> "", cause |-> "nil"]

\* ctx.Err(): context.Canceled or context.DeadlineExceeded itself.
CtxError(e) == [wrap |-> "", cause |-> e]

\* fmt.Errorf(msg + ": %w", err)
WrapErr(msg, err) == [wrap |-> msg, cause |-> err.cause]

NilResult == [shape |-> "nil"]

NoSvc == [result |-> NilResult, err |-> NilErr]

NoPend == [status |-> 0, payload |-> NilResult]

NoSnap == [wrote |-> FALSE, body |-> <<>>]

\* model.ErrorResponse{Error: msg}
ErrorResponse(msg) == [shape |-> "ErrorResponse", error |-> msg]

\* model.HealthResponse{Status: s}
HealthResponse(s) == [shape |-> "HealthResponse", status |-> s]

\* model.ReadyResponse{Status: s}
ReadyResponse(s) == [shape |-> "ReadyResponse", status |-> s]

\* model.ExampleResponse{Message: "Hello, <name>!", Timestamp: now,
\* Processed: true}
ExampleResponse(name) ==
    [shape |-> "ExampleResponse", message |-> "Hello, " \o name \o "!",
     processed |-> TRUE]

\* The text/plain body http.Error writes.
PlainText(t) == [shape |-> "text", text |-> t]

\* One structured log record; status 0 / trace -1 mean the field is absent.
LogEntry(level, msg, status, trace) ==
    [level |-> level, msg |-> msg, status |-> status, trace |-> trace]

\* w.Header().Set(k, v)
RWSetHeader(r, k, v) == [r EXCEPT !.hdr[k] = v]

\* w.WriteHeader(code): only the first call sends the status line and the
\* headers; a later call is ignored by net/http.
RWWriteHeader(r, code) ==
    IF r.wroteHeader THEN r
    ELSE [r EXCEPT !.wroteHeader = TRUE, !.status = code, !.sentHdr = r.hdr]

\* w.Write(p): sends an implicit 200 if no status was sent, then appends p.
RWWrite(r, p) ==
    LET r1 == RWWriteHeader(r, 200)
    IN  [r1 EXCEPT !.body = Append(r1.body, p)]

\* generateTraceID(): 16 random bytes in hex (or the clock-based fallback);
\* never empty.
GenerateTraceID == TraceIDs

\* server.New: handler = mux; handler = Logging(handler);
\* handler = Recovery(handler); handler = TraceID(handler) / Tracing(handler).
\* The last one applied is the outermost.
Reverse(s) == [i \in 1..Len(s) |-> s[Len(s) + 1 - i]]

\* Mutant of ServerNew: the middlewares are applied in the opposite order,
\* which makes Logging the outermost.
ServerNewMutantLoggingOuter(v) ==
    Reverse(<<"mux", IF v = "Tracing" THEN "Tracing" ELSE "TraceID",
              "Recovery", "Logging">>)

ServerNew(v) ==
    Reverse(<<"mux", "Logging", "Recovery",
              IF v = "Tracing" THEN "Tracing" ELSE "TraceID">>)

Chain == ServerNew(variant)

\* A write made by the chain element at position d goes through the wrapped
\* writer of `name` iff `name` sits outside d.
Through(name, d) == \E i \in 1..(d - 1) : Chain[i] = name

\* responseWriter.WriteHeader of Logging: stores every code it is given.
LogStatusAfter(d, code) == IF Through("Logging", d) THEN code ELSE logStatus

\* responseWriter.WriteHeader of Tracing: the same.
TraceStatusAfter(d, code) == IF Through("Tracing", d) THEN code ELSE traceStatus

\* mux.HandleFunc("GET /health", ...), ("GET /ready", ...),
\* ("GET /api/example", ...)
Route(method, path) ==
    IF path \notin {"/health", "/ready", "/api/example"} THEN "NotFound"
    ELSE IF method # "GET" THEN "MethodNotAllowed"
    ELSE IF path = "/health" THEN "Health"
    ELSE IF path = "/ready" THEN "Ready"
    ELSE "Example"

HandlerPc(h) ==
    CASE h = "Health"  -> "h_health"
      [] h = "Ready"   -> "h_ready"
      [] h = "Example" -> "h_example"

\* Mutant of HandlerName: the default is missing.
HandlerNameMutantNoDefault(n) == n

\* name := r.URL.Query().Get("name"); if name == "" { name = "World" }
HandlerName(n) == IF n = "" THEN "World" ELSE n

\* Repository.CheckHealth / CheckReady: return nil.
RepoCheckHealth == NilErr

RepoCheckReady == NilErr

\* Repository.GetData: ctx.Err() if the context is done, the data otherwise.
RepoGetData(e) ==
    IF e # "none" THEN [data |-> "nil", err |-> CtxError(e)]
    ELSE [data |-> "active", err |-> NilErr]

\* Mutant of SvcForward: the repository's error is dropped.
SvcForwardMutantSwallow(repoErr) == NilErr

\* Service.CheckHealth / CheckReady, given what the repository returned:
\* if err != nil { return err }; return nil.
SvcForward(repoErr) == IF repoErr # NilErr THEN repoErr ELSE NilErr

\* ProcessExample, given the error Repository.GetData returned:
\* return nil, fmt.Errorf("data access error: %w", err).
SvcGetDataFailed(repoErr) ==
    [result |-> NilResult, err |-> WrapErr("data access error", repoErr)]

\* Service.CheckHealth / CheckReady: forward to the repository.
SvcCheckHealth == SvcForward(RepoCheckHealth)

SvcCheckReady == SvcForward(RepoCheckReady)

\* propagator.Extract: the global propagator reads traceparent only once
\* otel.Setup has installed it together with the tracer provider.
Extract(tp) == IF tracerProvider THEN tp ELSE 0

\* Mutant of TracerStart: the span always starts a new trace, whatever the
\* parent.
TracerStartMutantFresh(parent) ==
    IF ~tracerProvider THEN {parent} ELSE TraceIDs

\* tracer.Start: the trace IDs the new span can have.  Without a provider the
\* tracer is the no-op one and the span context is the (invalid) parent's.
TracerStart(parent) ==
    IF ~tracerProvider THEN {parent}
    ELSE IF parent # 0 THEN {parent}
    ELSE TraceIDs

\* err.Error(): the text of an error, with the wrapping message in front.
ErrString(err) ==
    IF err.wrap = "" THEN err.cause ELSE err.wrap \o ": " \o err.cause

\* logger.ErrorContext(ctx, msg, slog.String("error", err.Error()))
LogError(msg, err) ==
    [level |-> "ERROR", msg |-> msg, status |-> 0, trace |-> -1,
     error |-> ErrString(err)]

\* Mutant of HealthOutcome: a failed check is answered 500 with the generic
\* message of the example endpoint.
HealthOutcomeMutant500(err) ==
    IF err # NilErr
       THEN [status |-> 500,
             payload |-> ErrorResponse("internal server error"),
             logs |-> <<LogError("health check failed", err)>>]
       ELSE [status |-> 200, payload |-> HealthResponse("healthy"),
             logs |-> <<>>]

\* Handler.Health: what it logs and hands to writeJSON for a given result of
\* Service.CheckHealth.
HealthOutcome(err) ==
    IF err # NilErr
       THEN [status |-> 503, payload |-> ErrorResponse("service unhealthy"),
             logs |-> <<LogError("health check failed", err)>>]
       ELSE [status |-> 200, payload |-> HealthResponse("healthy"),
             logs |-> <<>>]

\* Handler.Ready: the same for Service.CheckReady.
ReadyOutcome(err) ==
    IF err # NilErr
       THEN [status |-> 503, payload |-> ErrorResponse("service not ready"),
             logs |-> <<LogError("readiness check failed", err)>>]
       ELSE [status |-> 200, payload |-> ReadyResponse("ready"),
             logs |-> <<>>]

\* Mutant of ExampleOutcome: the error text is put into the envelope.
ExampleOutcomeMutantLeak(result, err) ==
    IF err # NilErr
       THEN [status |-> 500, payload |-> ErrorResponse(ErrString(err)),
             logs |-> <<LogError("service error", err)>>]
       ELSE [status |-> 200, payload |-> result, logs |-> <<>>]

\* Handler.Example: the same for the pair Service.ProcessExample returned.
ExampleOutcome(result, err) ==
    IF err # NilErr
       THEN [status |-> 500,
             payload |-> ErrorResponse("internal server error"),
             logs |-> <<LogError("service error", err)>>]
       ELSE [status |-> 200, payload |-> result, logs |-> <<>>]

\* Positions inside the recovery boundary at which a panic can be raised.
PanicPcs == {"h_health", "h_ready", "h_example", "svc_check1", "svc_repo",
             "svc_sleep", "svc_check2", "example_result", "write_header",
             "write_body"}

ReqIdle ==
    /\ rpc = "idle"
    /\ depth = 0
    /\ req = NoReq
    /\ ctxErr = "none"
    /\ ctxTraceID = 0
    /\ resp = EmptyResp
    /\ logStatus = 0
    /\ traceStatus = 0
    /\ span = NoSpan
    /\ rlog = <<>>
    /\ svc = NoSvc
    /\ getDataCalls = 0
    /\ cancelledAtEntry = "n/a"
    /\ pend = NoPend
    /\ panicAt = ""
    /\ snapAtPanic = NoSnap
    /\ served = 0
    /\ recoveredBefore = FALSE
    /\ entered = <<>>

\* The process in state Listening with no connection yet.
LifeListening ==
    /\ mainPc = "wait_signal"
    /\ built = BuildOrder
    /\ signalled = FALSE
    /\ lnPc = "serve"
    /\ lasResult = "none"
    /\ portFree = TRUE
    /\ inShutdown = FALSE
    /\ lnBound = TRUE
    /\ timerFired = FALSE
    /\ shutdownErr = "none"
    /\ exited = FALSE
    /\ exitCode = NoExit
    /\ exitBy = "none"
    /\ conns = [c \in ConnIds |-> "idle"]
    /\ acceptPc = [c \in ConnIds |-> ""]
    /\ sigInflight = {}
    /\ lifeLog = {"starting server", "server listening"}

\* net/http hands a new request to srv.Handler: a fresh ResponseWriter and a
\* fresh request context.
NewRequest ==
    /\ ~exited /\ lnPc = "serve" /\ ~inShutdown
    /\ rpc \in {"idle", "done"}
    /\ served < MaxServed
    /\ \E m \in Methods, p \in Paths, n \in Names, tp \in 0..MaxTraceID :
          /\ (p # "/api/example" => n = "")
          /\ (variant # "Tracing" => tp = 0)
          /\ req' = [method |-> m, path |-> p, name |-> n, traceparent |-> tp]
    /\ rpc' = "enter"
    /\ depth' = 1
    /\ ctxErr' = "none"
    /\ ctxTraceID' = 0
    /\ resp' = EmptyResp
    /\ logStatus' = 0
    /\ traceStatus' = 0
    /\ span' = NoSpan
    /\ rlog' = <<>>
    /\ svc' = NoSvc
    /\ getDataCalls' = 0
    /\ cancelledAtEntry' = "n/a"
    /\ pend' = NoPend
    /\ panicAt' = ""
    /\ snapAtPanic' = NoSnap
    /\ entered' = <<>>
    /\ UNCHANGED <<variant, tracerProvider, served, recoveredBefore,
                   lifeVars, auxVars>>

\* The request context is cancelled (client gone) or its deadline passes.
CancelCtx(kind) ==
    /\ rpc \notin {"idle", "done"}
    /\ depth > 0
    /\ ctxErr = "none"
    /\ ctxErr' = kind
    /\ UNCHANGED <<variant, tracerProvider, rpc, depth, req, ctxTraceID,
                   resp, logStatus, traceStatus, span, rlog, svc,
                   getDataCalls, cancelledAtEntry, pend, panicAt,
                   snapAtPanic, served, recoveredBefore,
                   entered, lifeVars, auxVars>>

\* TraceID: generate the ID, set X-Trace-ID, put the ID in the context, call
\* next.
TraceIDEnter ==
    /\ rpc = "enter"
    /\ entered' = Append(entered, Chain[depth])
    /\ Chain[depth] = "TraceID"
    /\ \E traceID \in GenerateTraceID :
          /\ resp' = RWSetHeader(resp, "trace", traceID)
          /\ ctxTraceID' = traceID
    /\ depth' = depth + 1
    /\ UNCHANGED <<variant, tracerProvider, rpc, req, ctxErr, logStatus,
                   traceStatus, span, rlog, svc, getDataCalls,
                   cancelledAtEntry, pend, panicAt, snapAtPanic, served,
                   recoveredBefore, lifeVars, auxVars>>

\* TraceID: next.ServeHTTP returned.
TraceIDExit ==
    /\ rpc = "exit"
    /\ depth > 0
    /\ Chain[depth] = "TraceID"
    /\ depth' = depth - 1
    /\ UNCHANGED <<variant, tracerProvider, rpc, req, ctxErr, ctxTraceID,
                   resp, logStatus, traceStatus, span, rlog, svc,
                   getDataCalls, cancelledAtEntry, pend, panicAt,
                   snapAtPanic, served, recoveredBefore,
                   entered, lifeVars, auxVars>>

\* Tracing: extract the inbound trace context, start the span, set X-Trace-ID
\* if the span context is valid, wrap the writer, call next.
TracingEnter ==
    /\ rpc = "enter"
    /\ entered' = Append(entered, Chain[depth])
    /\ Chain[depth] = "Tracing"
    /\ \E id \in TracerStart(Extract(req.traceparent)) :
          /\ span' = [started |-> TRUE, traceID |-> id, ends |-> 0,
                      code |-> 0, status |-> "unset"]
          /\ ctxTraceID' = id
          /\ resp' = IF id # 0 THEN RWSetHeader(resp, "trace", id) ELSE resp
    /\ traceStatus' = 200
    /\ depth' = depth + 1
    /\ UNCHANGED <<variant, tracerProvider, rpc, req, ctxErr, logStatus,
                   rlog, svc, getDataCalls, cancelledAtEntry, pend, panicAt,
                   snapAtPanic, served, recoveredBefore, lifeVars, auxVars>>

\* Mutant of TracingExit: span.End() is not deferred and not called.
TracingExitMutantNoEnd ==
    /\ rpc = "exit"
    /\ depth > 0
    /\ Chain[depth] = "Tracing"
    /\ span' = [span EXCEPT !.code = traceStatus,
                            !.status = IF traceStatus >= 400 THEN "error"
                                                             ELSE "ok"]
    /\ depth' = depth - 1
    /\ UNCHANGED <<variant, tracerProvider, rpc, req, ctxErr, ctxTraceID,
                   resp, logStatus, traceStatus, rlog, svc, getDataCalls,
                   cancelledAtEntry, pend, panicAt, snapAtPanic, served,
                   recoveredBefore,
                   entered, lifeVars, auxVars>>

\* Tracing: next.ServeHTTP returned: record the status code and the span
\* status; the deferred span.End() runs.
TracingExit ==
    /\ rpc = "exit"
    /\ depth > 0
    /\ Chain[depth] = "Tracing"
    /\ span' = [span EXCEPT !.code = traceStatus,
                            !.status = IF traceStatus >= 400 THEN "error"
                                                             ELSE "ok",
                            !.ends = @ + 1]
    /\ depth' = depth - 1
    /\ UNCHANGED <<variant, tracerProvider, rpc, req, ctxErr, ctxTraceID,
                   resp, logStatus, traceStatus, rlog, svc, getDataCalls,
                   cancelledAtEntry, pend, panicAt, snapAtPanic, served,
                   recoveredBefore,
                   entered, lifeVars, auxVars>>

\* Recovery: the deferred recover() is installed, next is called.
RecoveryEnter ==
    /\ rpc = "enter"
    /\ entered' = Append(entered, Chain[depth])
    /\ Chain[depth] = "Recovery"
    /\ depth' = depth + 1
    /\ UNCHANGED <<variant, tracerProvider, rpc, req, ctxErr, ctxTraceID,
                   resp, logStatus, traceStatus, span, rlog, svc,
                   getDataCalls, cancelledAtEntry, pend, panicAt,
                   snapAtPanic, served, recoveredBefore, lifeVars, auxVars>>

\* Recovery: next.ServeHTTP returned without a panic; recover() gives nil.
RecoveryExit ==
    /\ rpc = "exit"
    /\ depth > 0
    /\ Chain[depth] = "Recovery"
    /\ depth' = depth - 1
    /\ UNCHANGED <<variant, tracerProvider, rpc, req, ctxErr, ctxTraceID,
                   resp, logStatus, traceStatus, span, rlog, svc,
                   getDataCalls, cancelledAtEntry, pend, panicAt,
                   snapAtPanic, served, recoveredBefore,
                   entered, lifeVars, auxVars>>

\* Mutant of RecoveryRecover: the panic is logged but no response is written.
RecoveryRecoverMutantLogOnly ==
    /\ rpc = "unwind"
    /\ Chain[depth] = "Recovery"
    /\ rlog' = Append(rlog, LogEntry("ERROR", "panic recovered", 0, -1))
    /\ rpc' = "exit"
    /\ depth' = depth - 1
    /\ UNCHANGED <<variant, tracerProvider, req, ctxErr, ctxTraceID, resp,
                   logStatus, traceStatus, span, svc, getDataCalls,
                   cancelledAtEntry, pend, panicAt, snapAtPanic, served,
                   recoveredBefore,
                   entered, lifeVars, auxVars>>

\* Recovery: a panic reaches the deferred function: log it, set Content-Type,
\* WriteHeader(500), Write the error envelope; ServeHTTP then returns normally.
RecoveryRecover ==
    /\ rpc = "unwind"
    /\ Chain[depth] = "Recovery"
    /\ rlog' = Append(rlog, LogEntry("ERROR", "panic recovered", 0, -1))
    /\ resp' = RWWrite(RWWriteHeader(RWSetHeader(resp, "ct", "application/json"),
                                     500),
                       ErrorResponse("internal server error"))
    /\ logStatus' = LogStatusAfter(depth, 500)
    /\ traceStatus' = TraceStatusAfter(depth, 500)
    /\ rpc' = "exit"
    /\ depth' = depth - 1
    /\ UNCHANGED <<variant, tracerProvider, req, ctxErr, ctxTraceID, span,
                   svc, getDataCalls, cancelledAtEntry, pend, panicAt,
                   snapAtPanic, served, recoveredBefore,
                   entered, lifeVars, auxVars>>

\* Logging: take the start time, wrap the writer (statusCode 200), call next.
LoggingEnter ==
    /\ rpc = "enter"
    /\ entered' = Append(entered, Chain[depth])
    /\ Chain[depth] = "Logging"
    /\ logStatus' = 200
    /\ depth' = depth + 1
    /\ UNCHANGED <<variant, tracerProvider, rpc, req, ctxErr, ctxTraceID,
                   resp, traceStatus, span, rlog, svc, getDataCalls,
                   cancelledAtEntry, pend, panicAt, snapAtPanic, served,
                   recoveredBefore, lifeVars, auxVars>>

\* Logging: next.ServeHTTP returned: emit the access-log entry.
LoggingExit ==
    /\ rpc = "exit"
    /\ depth > 0
    /\ Chain[depth] = "Logging"
    /\ rlog' = Append(rlog, LogEntry("INFO", "http request", logStatus,
                                     IF variant = "Tracing" THEN ctxTraceID
                                                            ELSE -1))
    /\ depth' = depth - 1
    /\ UNCHANGED <<variant, tracerProvider, rpc, req, ctxErr, ctxTraceID,
                   resp, logStatus, traceStatus, span, svc, getDataCalls,
                   cancelledAtEntry, pend, panicAt, snapAtPanic, served,
                   recoveredBefore,
                   entered, lifeVars, auxVars>>

\* Logging has no deferred function: a panic passes through it and the
\* access-log entry is not written.
LoggingUnwind ==
    /\ rpc = "unwind"
    /\ Chain[depth] = "Logging"
    /\ depth' = depth - 1
    /\ UNCHANGED <<variant, tracerProvider, rpc, req, ctxErr, ctxTraceID,
                   resp, logStatus, traceStatus, span, rlog, svc,
                   getDataCalls, cancelledAtEntry, pend, panicAt,
                   snapAtPanic, served, recoveredBefore,
                   entered, lifeVars, auxVars>>

\* ServeMux: exact match on method and path; otherwise it answers 404 (or 405
\* for a registered path with another method) itself.
MuxDispatch ==
    /\ rpc = "enter"
    /\ entered' = Append(entered, Chain[depth])
    /\ Chain[depth] = "mux"
    /\ LET h == Route(req.method, req.path)
           code == IF h = "MethodNotAllowed" THEN 405 ELSE 404
           text == IF h = "MethodNotAllowed" THEN "Method Not Allowed"
                                             ELSE "404 page not found"
       IN  IF h \in {"Health", "Ready", "Example"}
              THEN /\ rpc' = HandlerPc(h)
                   /\ UNCHANGED <<depth, resp, logStatus, traceStatus>>
              ELSE /\ resp' = RWWrite(RWWriteHeader(
                                         RWSetHeader(resp, "ct", "text/plain"),
                                         code),
                                      PlainText(text))
                   /\ logStatus' = LogStatusAfter(depth, code)
                   /\ traceStatus' = TraceStatusAfter(depth, code)
                   /\ rpc' = "exit"
                   /\ depth' = depth - 1
    /\ UNCHANGED <<variant, tracerProvider, req, ctxErr, ctxTraceID, span,
                   rlog, svc, getDataCalls, cancelledAtEntry, pend, panicAt,
                   snapAtPanic, served, recoveredBefore, lifeVars, auxVars>>

\* Handler.Health: Service.CheckHealth, then 503 + error envelope or 200 +
\* healthy.
HandlerHealth ==
    /\ rpc = "h_health"
    /\ LET o == HealthOutcome(SvcCheckHealth)
       IN  /\ rlog' = rlog \o o.logs
           /\ pend' = [status |-> o.status, payload |-> o.payload]
    /\ rpc' = "write_header"
    /\ UNCHANGED <<variant, tracerProvider, depth, req, ctxErr, ctxTraceID,
                   resp, logStatus, traceStatus, span, svc, getDataCalls,
                   cancelledAtEntry, panicAt, snapAtPanic, served,
                   recoveredBefore,
                   entered, lifeVars, auxVars>>

\* Handler.Ready: Service.CheckReady, then 503 + error envelope or 200 +
\* ready.
HandlerReady ==
    /\ rpc = "h_ready"
    /\ LET o == ReadyOutcome(SvcCheckReady)
       IN  /\ rlog' = rlog \o o.logs
           /\ pend' = [status |-> o.status, payload |-> o.payload]
    /\ rpc' = "write_header"
    /\ UNCHANGED <<variant, tracerProvider, depth, req, ctxErr, ctxTraceID,
                   resp, logStatus, traceStatus, span, svc, getDataCalls,
                   cancelledAtEntry, panicAt, snapAtPanic, served,
                   recoveredBefore,
                   entered, lifeVars, auxVars>>

\* Handler.Example: read the name parameter (default World) and call
\* Service.ProcessExample.
HandlerExample ==
    /\ rpc = "h_example"
    /\ rpc' = "svc_check1"
    /\ UNCHANGED <<variant, tracerProvider, depth, req, ctxErr, ctxTraceID,
                   resp, logStatus, traceStatus, span, rlog, svc,
                   getDataCalls, cancelledAtEntry, pend, panicAt,
                   snapAtPanic, served, recoveredBefore,
                   entered, lifeVars, auxVars>>

\* Mutant of SvcCheck1: the first checkpoint is missing.
SvcCheck1MutantNoCheck ==
    /\ rpc = "svc_check1"
    /\ cancelledAtEntry' = IF ctxErr # "none" THEN "yes" ELSE "no"
    /\ rlog' = Append(rlog, LogEntry("INFO", "processing example request",
                                     0, -1))
    /\ rpc' = "svc_repo"
    /\ UNCHANGED <<variant, tracerProvider, depth, req, ctxErr, ctxTraceID,
                   resp, logStatus, traceStatus, span, svc, getDataCalls,
                   pend, panicAt, snapAtPanic, served, recoveredBefore,
                   entered, lifeVars, auxVars>>

\* ProcessExample, first checkpoint: a context that is done ends the call with
\* ctx.Err(); otherwise the intent is logged.
SvcCheck1 ==
    /\ rpc = "svc_check1"
    /\ cancelledAtEntry' = IF ctxErr # "none" THEN "yes" ELSE "no"
    /\ IF ctxErr # "none"
          THEN /\ svc' = [result |-> NilResult, err |-> CtxError(ctxErr)]
               /\ rpc' = "example_result"
               /\ rlog' = rlog
          ELSE /\ rlog' = Append(rlog, LogEntry("INFO",
                                                "processing example request", 0, -1))
               /\ rpc' = "svc_repo"
               /\ svc' = svc
    /\ UNCHANGED <<variant, tracerProvider, depth, req, ctxErr, ctxTraceID,
                   resp, logStatus, traceStatus, span, getDataCalls, pend,
                   panicAt, snapAtPanic, served, recoveredBefore,
                   entered, lifeVars, auxVars>>

\* ProcessExample: s.repo.GetData(ctx, name); an error is logged and returned
\* wrapped as "data access error".
SvcGetData ==
    /\ rpc = "svc_repo"
    /\ getDataCalls' = getDataCalls + 1
    /\ LET r == RepoGetData(ctxErr)
       IN  IF r.err # NilErr
              THEN /\ rlog' = Append(rlog, LogError("failed to get data",
                                                    r.err))
                   /\ svc' = SvcGetDataFailed(r.err)
                   /\ rpc' = "example_result"
              ELSE /\ rlog' = rlog
                   /\ svc' = svc
                   /\ rpc' = "svc_sleep"
    /\ UNCHANGED <<variant, tracerProvider, depth, req, ctxErr, ctxTraceID,
                   resp, logStatus, traceStatus, span, cancelledAtEntry,
                   pend, panicAt, snapAtPanic, served, recoveredBefore,
                   entered, lifeVars, auxVars>>

\* ProcessExample: time.Sleep(100 * time.Millisecond).
SvcSleep ==
    /\ rpc = "svc_sleep"
    /\ rpc' = "svc_check2"
    /\ UNCHANGED <<variant, tracerProvider, depth, req, ctxErr, ctxTraceID,
                   resp, logStatus, traceStatus, span, rlog, svc,
                   getDataCalls, cancelledAtEntry, pend, panicAt,
                   snapAtPanic, served, recoveredBefore,
                   entered, lifeVars, auxVars>>

\* Mutant of SvcCheck2: the second checkpoint is missing.
SvcCheck2MutantNoRecheck ==
    /\ rpc = "svc_check2"
    /\ svc' = [result |-> ExampleResponse(HandlerName(req.name)),
               err |-> NilErr]
    /\ rlog' = Append(rlog, LogEntry("INFO",
                                     "example request processed", 0, -1))
    /\ rpc' = "example_result"
    /\ UNCHANGED <<variant, tracerProvider, depth, req, ctxErr, ctxTraceID,
                   resp, logStatus, traceStatus, span, getDataCalls,
                   cancelledAtEntry, pend, panicAt, snapAtPanic, served,
                   recoveredBefore,
                   entered, lifeVars, auxVars>>

\* ProcessExample, second checkpoint, then the response is built and the
\* success is logged.
SvcCheck2 ==
    /\ rpc = "svc_check2"
    /\ IF ctxErr # "none"
          THEN /\ svc' = [result |-> NilResult, err |-> CtxError(ctxErr)]
               /\ rlog' = rlog
          ELSE /\ svc' = [result |-> ExampleResponse(HandlerName(req.name)),
                          err |-> NilErr]
               /\ rlog' = Append(rlog, LogEntry("INFO",
                                                "example request processed", 0, -1))
    /\ rpc' = "example_result"
    /\ UNCHANGED <<variant, tracerProvider, depth, req, ctxErr, ctxTraceID,
                   resp, logStatus, traceStatus, span, getDataCalls,
                   cancelledAtEntry, pend, panicAt, snapAtPanic, served,
                   recoveredBefore,
                   entered, lifeVars, auxVars>>

\* Handler.Example: an error is logged and answered 500 + generic envelope;
\* a result is answered 200.
HandlerExampleResult ==
    /\ rpc = "example_result"
    /\ LET o == ExampleOutcome(svc.result, svc.err)
       IN  /\ rlog' = rlog \o o.logs
           /\ pend' = [status |-> o.status, payload |-> o.payload]
    /\ rpc' = "write_header"
    /\ UNCHANGED <<variant, tracerProvider, depth, req, ctxErr, ctxTraceID,
                   resp, logStatus, traceStatus, span, svc, getDataCalls,
                   cancelledAtEntry, panicAt, snapAtPanic, served,
                   recoveredBefore,
                   entered, lifeVars, auxVars>>

\* writeJSON: w.Header().Set("Content-Type", ...); w.WriteHeader(status).
WriteJSONHeader ==
    /\ rpc = "write_header"
    /\ resp' = RWWriteHeader(RWSetHeader(resp, "ct", "application/json"),
                             pend.status)
    /\ logStatus' = LogStatusAfter(depth, pend.status)
    /\ traceStatus' = TraceStatusAfter(depth, pend.status)
    /\ rpc' = "write_body"
    /\ UNCHANGED <<variant, tracerProvider, depth, req, ctxErr, ctxTraceID,
                   span, rlog, svc, getDataCalls, cancelledAtEntry, pend,
                   panicAt, snapAtPanic, served, recoveredBefore,
                   entered, lifeVars, auxVars>>

\* writeJSON: json.NewEncoder(w).Encode(data); the handler returns.
WriteJSONBody ==
    /\ rpc = "write_body"
    /\ resp' = RWWrite(resp, pend.payload)
    /\ rpc' = "exit"
    /\ depth' = depth - 1
    /\ UNCHANGED <<variant, tracerProvider, req, ctxErr, ctxTraceID,
                   logStatus, traceStatus, span, rlog, svc, getDataCalls,
                   cancelledAtEntry, pend, panicAt, snapAtPanic, served,
                   recoveredBefore,
                   entered, lifeVars, auxVars>>

\* A panic is raised inside the recovery boundary: in a handler, the service
\* or writeJSON, or after the handler has returned (in Logging).
Panic ==
    /\ panicAt = ""
    /\ \/ rpc \in PanicPcs
       \/ rpc = "exit" /\ depth > 0 /\ Chain[depth] = "Logging"
    /\ panicAt' = IF rpc = "exit" THEN "logging_exit" ELSE rpc
    /\ snapAtPanic' = [wrote |-> resp.wroteHeader, body |-> resp.body]
    /\ depth' = IF rpc = "exit" THEN depth ELSE depth - 1
    /\ rpc' = "unwind"
    /\ UNCHANGED <<variant, tracerProvider, req, ctxErr, ctxTraceID, resp,
                   logStatus, traceStatus, span, rlog, svc, getDataCalls,
                   cancelledAtEntry, pend, served, recoveredBefore,
                   entered, lifeVars, auxVars>>

\* The outermost handler returned: net/http completes the response (status
\* 200 if none was written) and the connection serves on.
ServerFinish ==
    /\ rpc = "exit"
    /\ depth = 0
    /\ resp' = RWWriteHeader(resp, 200)
    /\ rpc' = "done"
    /\ served' = served + 1
    /\ recoveredBefore' = (recoveredBefore
                            \/ (panicAt # "" /\ ~snapAtPanic.wrote))
    /\ UNCHANGED <<variant, tracerProvider, depth, req, ctxErr, ctxTraceID,
                   logStatus, traceStatus, span, rlog, svc, getDataCalls,
                   cancelledAtEntry, pend, panicAt, snapAtPanic,
                   entered, lifeVars, auxVars>>

----------------------------------------------------------------------------
(* Part III: requests handled at the same time by the trace middleware *)

ConcReqs == 1..MaxConcurrent

TraceIdle ==
    /\ cpc = [r \in ConcReqs |-> "idle"]
    /\ ctp = [r \in ConcReqs |-> 0]
    /\ chdr = [r \in ConcReqs |-> 0]

\* No direct handler call is set up.
MapIdle ==
    /\ hName = "none"
    /\ hErr = <<NilErr, NilErr>>
    /\ hOut = <<>>

\* config.Load has not returned.
NoConfig == [loaded |-> FALSE]

\* config.Load has not been called in isolation.
CfgIdle ==
    /\ env = <<>>
    /\ cfg = NoConfig

\* No telemetry: the binary of src/cmd/server/main.go never calls otel.Setup.
\* The shutdown function has not been called.
NoFlush == [called |-> <<>>, traceFailed |-> FALSE, metricFailed |-> FALSE,
            err |-> "none"]

OtelIdle ==
    /\ otelEnabled = FALSE
    /\ otelPc = "unset"
    /\ traceExp = "none"
    /\ metricExp = "none"
    /\ flushCtx = "none"
    /\ flushRes = NoFlush

AuxIdle == TraceIdle /\ MapIdle /\ CfgIdle /\ OtelIdle

\* net/http starts a goroutine for the request; it may carry a traceparent
\* header (only the Tracing variant reads it).
ConcArrive(r) ==
    /\ cpc[r] \in {"idle", "done"}
    /\ cpc' = [cpc EXCEPT ![r] = "arrived"]
    /\ \E tp \in 0..MaxTraceID :
          /\ (variant # "Tracing" => tp = 0)
          /\ ctp' = [ctp EXCEPT ![r] = tp]
    /\ chdr' = [chdr EXCEPT ![r] = 0]
    /\ UNCHANGED <<lifeVars, reqVars, mapVars,
                   cfgVars, otelVars>>

\* TraceID: traceID := generateTraceID(); w.Header().Set("X-Trace-ID", traceID).
\* generateTraceID keeps no record of the IDs it has handed out.
ConcTraceID(r) ==
    /\ variant = "TraceID"
    /\ cpc[r] = "arrived"
    /\ \E traceID \in GenerateTraceID :
          chdr' = [chdr EXCEPT ![r] = traceID]
    /\ cpc' = [cpc EXCEPT ![r] = "handling"]
    /\ UNCHANGED <<ctp, lifeVars, reqVars, mapVars,
                   cfgVars, otelVars>>

\* Tracing: propagator.Extract, tracer.Start, and the header is set if the
\* span context is valid.
ConcTracing(r) ==
    /\ variant = "Tracing"
    /\ cpc[r] = "arrived"
    /\ \E id \in TracerStart(Extract(ctp[r])) :
          chdr' = [chdr EXCEPT ![r] = id]
    /\ cpc' = [cpc EXCEPT ![r] = "handling"]
    /\ UNCHANGED <<ctp, lifeVars, reqVars, mapVars,
                   cfgVars, otelVars>>

\* The inner chain returns and the response goes out.
ConcFinish(r) ==
    /\ cpc[r] = "handling"
    /\ cpc' = [cpc EXCEPT ![r] = "done"]
    /\ UNCHANGED <<ctp, chdr, lifeVars, reqVars, mapVars,
                   cfgVars, otelVars>>

----------------------------------------------------------------------------
(* Part IV: the handlers called directly with a recorder, as the handler     *)
(* tests do, for every result the service layer can hand them               *)

HandlerNames == {"Health", "Ready", "Example"}

\* Errors a service call can return: nil, a context error, an error of the
\* data-access layer, each bare or wrapped by the service.
SvcErrors ==
    {NilErr} \cup
    { [wrap |-> w, cause |-> c] :
        w \in {"", "data access error"},
        c \in {"context canceled", "context deadline exceeded",
               "connection refused"} }

\* writeJSON(w, status, data) as a whole.
WriteJSON(r, status, data) ==
    RWWrite(RWWriteHeader(RWSetHeader(r, "ct", "application/json"), status),
            data)

\* h.Health(rec, req) / h.Ready(rec, req) / h.Example(rec, req) when the
\* service returns err (and, for Example, a response when err is nil).
HandlerOutcome(h, err) ==
    CASE h = "Health"  -> HealthOutcome(err)
      [] h = "Ready"   -> ReadyOutcome(err)
      [] h = "Example" ->
            ExampleOutcome(IF err = NilErr
                              THEN ExampleResponse(HandlerName(""))
                              ELSE NilResult,
                           err)

HandlerCall(i) ==
    /\ hName \in HandlerNames
    /\ Len(hOut) = i - 1
    /\ LET o == HandlerOutcome(hName, hErr[i])
       IN  hOut' = Append(hOut, [resp |-> WriteJSON(EmptyResp, o.status,
                                                   o.payload),
                                 logs |-> o.logs])
    /\ UNCHANGED <<hName, hErr, lifeVars, reqVars, traceVars,
                   cfgVars, otelVars>>

\* A handler called on a service whose repository returns hErr[i] (the
\* request context is live): the service result and the response are recorded.
StackCall(i) ==
    /\ hName \in HandlerNames
    /\ Len(hOut) = i - 1
    /\ LET e == hErr[i]
           s == IF hName \in {"Health", "Ready"}
                   THEN [result |-> NilResult, err |-> SvcForward(e)]
                ELSE IF e # NilErr THEN SvcGetDataFailed(e)
                ELSE [result |-> ExampleResponse(HandlerName("")),
                      err |-> NilErr]
           o == HandlerOutcome(hName, s.err)
       IN  hOut' = Append(hOut, [resp |-> WriteJSON(EmptyResp, o.status,
                                                   o.payload),
                                 logs |-> o.logs,
                                 svc  |-> s])
    /\ UNCHANGED <<hName, hErr, lifeVars, reqVars, traceVars,
                   cfgVars, otelVars>>

----------------------------------------------------------------------------
(* Part V: config.Load over the environment *)

StringKeys == {"PORT", "LOG_LEVEL", "ENVIRONMENT"}

DurationKeys == {"READ_TIMEOUT", "WRITE_TIMEOUT", "IDLE_TIMEOUT",
                 "SHUTDOWN_TIMEOUT"}

EnvKeys == StringKeys \cup DurationKeys \cup {"OTEL_ENABLED"}

\* Values a variable is given in the environment ("": unset or empty).
StringValues(k) ==
    CASE k = "PORT"        -> {"", "9000"}
      [] k = "LOG_LEVEL"   -> {"", "debug"}
      [] k = "ENVIRONMENT" -> {"", "production"}

DurationValues == {"", "30s", "2m", "30", "abc"}

\* time.ParseDuration, in seconds: a number with a unit parses, a bare
\* number or other text is an error.
ParseDuration(v) ==
    CASE v = "30s" -> [ok |-> TRUE, d |-> 30]
      [] v = "2m"  -> [ok |-> TRUE, d |-> 2 * 60]
      [] OTHER     -> [ok |-> FALSE, d |-> 0]

BoolValues == {"", "false", "1", "yes"}

\* strconv.ParseBool: "1", "t", "true", ... and "0", "f", "false", ... parse,
\* other text is an error.
ParseBool(v) ==
    CASE v = "1"     -> [ok |-> TRUE, b |-> TRUE]
      [] v = "false" -> [ok |-> TRUE, b |-> FALSE]
      [] OTHER       -> [ok |-> FALSE, b |-> FALSE]

\* Mutant of GetEnv: the environment value is dropped.
GetEnvMutantDefault(e, key, defaultValue) == defaultValue

\* getEnv(key, default) for a string default.
GetEnv(e, key, defaultValue) ==
    IF e[key] = "" THEN defaultValue ELSE e[key]

\* Mutant of GetDurationEnv: a value that does not parse yields the zero
\* duration the parser returned.
GetDurationEnvMutantZero(e, key, defaultValue) ==
    IF e[key] = "" THEN defaultValue
    ELSE ParseDuration(e[key]).d

\* getEnv(key, default) for a time.Duration default / getDurationEnv.
GetDurationEnv(e, key, defaultValue) ==
    IF e[key] = "" THEN defaultValue
    ELSE IF ParseDuration(e[key]).ok THEN ParseDuration(e[key]).d
    ELSE defaultValue

\* getEnv(key, default) for a bool default.
GetBoolEnv(e, key, defaultValue) ==
    IF e[key] = "" THEN defaultValue
    ELSE IF ParseBool(e[key]).ok THEN ParseBool(e[key]).b
    ELSE defaultValue

\* config.Load (durations in seconds).
Load(e) ==
    [Port            |-> GetEnv(e, "PORT", "8080"),
     ReadTimeout     |-> GetDurationEnv(e, "READ_TIMEOUT", 5),
     WriteTimeout    |-> GetDurationEnv(e, "WRITE_TIMEOUT", 10),
     IdleTimeout     |-> GetDurationEnv(e, "IDLE_TIMEOUT", 120),
     ShutdownTimeout |-> GetDurationEnv(e, "SHUTDOWN_TIMEOUT", 15),
     LogLevel        |-> GetEnv(e, "LOG_LEVEL", "info"),
     Environment     |-> GetEnv(e, "ENVIRONMENT", "development"),
     OtelEnabled     |-> GetBoolEnv(e, "OTEL_ENABLED", TRUE)]

\* cfg := config.Load()
ConfigLoad ==
    /\ cfg = NoConfig
    /\ DOMAIN env = EnvKeys
    /\ cfg' = Load(env)
    /\ UNCHANGED <<env, lifeVars, reqVars, traceVars, mapVars, otelVars>>

\* os.Setenv / os.Unsetenv before a load, as the config tests do.
ConfigSetenv(k, v) ==
    /\ DOMAIN env = EnvKeys
    /\ env[k] # v
    /\ env' = [env EXCEPT ![k] = v]
    /\ cfg' = NoConfig
    /\ UNCHANGED <<lifeVars, reqVars, traceVars, mapVars, otelVars>>

----------------------------------------------------------------------------

\* Spec: the lifecycle of the binary built from cmd/server/main.go (the
\* TraceID variant, no telemetry), requests abstracted to connections.
Init ==
    /\ LifeInit
    /\ variant = "TraceID"
    /\ tracerProvider = FALSE
    /\ ReqIdle
    /\ AuxIdle

Next ==
    \/ MainBuild
    \/ MainNotify
    \/ MainGo
    \/ Signal
    \/ MainWait
    \/ MainBeginShutdown
    \/ MainCallShutdown
    \/ ShutdownDrained
    \/ ShutdownDeadline
    \/ MainAfterShutdown
    \/ ListenerStart
    \/ ListenerBind
    \/ \E c \in ConnIds : Accept(c)
    \/ \E c \in ConnIds : Respond(c)
    \/ ListenerClosed
    \/ ListenerAfterReturn

Spec == Init /\ [][Next]_vars

\* Scheduling: the Go runtime keeps running a goroutine that can take a step.
MainStep ==
    \/ MainBuild \/ MainNotify \/ MainGo \/ MainWait \/ MainBeginShutdown
    \/ MainCallShutdown \/ ShutdownDrained \/ ShutdownDeadline
    \/ MainAfterShutdown

ListenerStep ==
    \/ ListenerStart \/ ListenerBind \/ ListenerClosed \/ ListenerAfterReturn

LiveSpec == Spec /\ WF_vars(MainStep) /\ WF_vars(ListenerStep)

\* ReqSpec: a listening server of either variant handling requests one at a
\* time.
ReqInit ==
    /\ LifeListening
    /\ variant \in {"TraceID", "Tracing"}
    /\ tracerProvider \in (IF variant = "Tracing" THEN BOOLEAN ELSE {FALSE})
    /\ ReqIdle
    /\ AuxIdle

ReqNext ==
    \/ NewRequest
    \/ \E kind \in {"context canceled", "context deadline exceeded"} :
          CancelCtx(kind)
    \/ TraceIDEnter
    \/ TraceIDExit
    \/ TracingEnter
    \/ TracingExit
    \/ RecoveryEnter
    \/ RecoveryExit
    \/ RecoveryRecover
    \/ LoggingEnter
    \/ LoggingExit
    \/ LoggingUnwind
    \/ MuxDispatch
    \/ HandlerHealth
    \/ HandlerReady
    \/ HandlerExample
    \/ SvcCheck1
    \/ SvcGetData
    \/ SvcSleep
    \/ SvcCheck2
    \/ HandlerExampleResult
    \/ WriteJSONHeader
    \/ WriteJSONBody
    \/ Panic
    \/ ServerFinish

ReqSpec == ReqInit /\ [][ReqNext]_vars

\* TraceSpec: a listening server of either variant with up to MaxConcurrent
\* requests inside the trace middleware at the same time.
TraceInit == ReqInit

TraceNext ==
    \E r \in ConcReqs :
        \/ ConcArrive(r)
        \/ ConcTraceID(r)
        \/ ConcTracing(r)
        \/ ConcFinish(r)

TraceSpec == TraceInit /\ [][TraceNext]_vars

\* MapSpec: one handler called twice, each time with one of the results the
\* service layer can return.
MapInit ==
    /\ LifeListening
    /\ variant = "TraceID"
    /\ tracerProvider = FALSE
    /\ ReqIdle
    /\ TraceIdle
    /\ CfgIdle
    /\ OtelIdle
    /\ hName \in HandlerNames
    /\ hErr \in SvcErrors \X SvcErrors
    /\ hOut = <<>>

MapNext == \E i \in 1..2 : HandlerCall(i)

MapSpec == MapInit /\ [][MapNext]_vars

\* StackSpec: one handler called twice on the service, the repository
\* returning nil or an unwrapped error each time.
StackInit ==
    /\ LifeListening
    /\ variant = "TraceID"
    /\ tracerProvider = FALSE
    /\ ReqIdle
    /\ TraceIdle
    /\ CfgIdle
    /\ OtelIdle
    /\ hName \in HandlerNames
    /\ hErr \in {e \in SvcErrors : e.wrap = ""} \X {e \in SvcErrors : e.wrap = ""}
    /\ hOut = <<>>

StackNext == \E i \in 1..2 : StackCall(i)

StackSpec == StackInit /\ [][StackNext]_vars

\* ConfigSpec: starting from a cleared environment (clearEnv), variables are
\* set and config.Load is called.
ConfigInit ==
    /\ LifeInit
    /\ variant = "TraceID"
    /\ tracerProvider = FALSE
    /\ ReqIdle
    /\ TraceIdle
    /\ MapIdle
    /\ OtelIdle
    /\ env = [k \in EnvKeys |-> ""]
    /\ portFree
    /\ cfg = NoConfig

ConfigNext ==
    \/ ConfigLoad
    \/ \E k \in StringKeys : \E v \in StringValues(k) : ConfigSetenv(k, v)
    \/ \E k \in DurationKeys : \E v \in DurationValues : ConfigSetenv(k, v)
    \/ \E v \in BoolValues : ConfigSetenv("OTEL_ENABLED", v)

ConfigSpec == ConfigInit /\ [][ConfigNext]_vars

----------------------------------------------------------------------------
(* Part VI: telemetry set-up and flush (pkg/otel) in the process lifecycle *)

\* The outcomes of otel.Setup when telemetry is enabled.
SetupOutcomes == {"ok", "trace_fail", "metric_fail"}

\* A provider's Shutdown(ctx), as returned by setupTraceProvider and
\* setupMeterProvider: it flushes and closes the exporter; with a context
\* that is already done the flush is abandoned.
ProviderShutdown(ctxDone, e) ==
    IF e # "open" THEN e
    ELSE IF ctxDone THEN "unflushed" ELSE "closed"

\* No shutdown function was called, or the no-op one.
NoopShutdown(t, m) ==
    [trace |-> t, metric |-> m, called |-> <<>>, traceFailed |-> FALSE,
     metricFailed |-> FALSE, err |-> "nil"]

\* Variant of the combined shutdown function that stops after traceShutdown.
OtelShutdownMutantTraceOnly(enabled, ctxDone, ft, fm, t, m) ==
    IF ~enabled
       THEN NoopShutdown(t, m)
       ELSE [trace |-> ProviderShutdown(ctxDone, t), metric |-> m,
             called |-> <<"trace">>,
             traceFailed |-> ft \/ (ctxDone /\ t = "open"),
             metricFailed |-> FALSE,
             err |-> IF ft \/ (ctxDone /\ t = "open") THEN "trace" ELSE "nil"]

\* Variant of the combined shutdown function that returns at the first error.
OtelShutdownMutantStopOnError(enabled, ctxDone, ft, fm, t, m) ==
    IF ~enabled
       THEN NoopShutdown(t, m)
    ELSE IF ft \/ (ctxDone /\ t = "open")
       THEN [trace |-> ProviderShutdown(ctxDone, t), metric |-> m,
             called |-> <<"trace">>, traceFailed |-> TRUE,
             metricFailed |-> FALSE, err |-> "trace"]
       ELSE [trace |-> ProviderShutdown(ctxDone, t),
             metric |-> ProviderShutdown(ctxDone, m),
             called |-> <<"trace", "metric">>, traceFailed |-> FALSE,
             metricFailed |-> fm \/ (ctxDone /\ m = "open"),
             err |-> IF fm \/ (ctxDone /\ m = "open") THEN "metric" ELSE "nil"]

\* The function otel.Setup returns: a no-op when telemetry is disabled,
\* otherwise traceShutdown followed by metricShutdown, both always called;
\* ft and fm say whether the provider's shutdown returns an error (the last
\* export fails), which it also does under a context that is done.  The
\* errors are combined as "<first>; <second>".
OtelShutdown(enabled, ctxDone, ft, fm, t, m) ==
    IF ~enabled
       THEN NoopShutdown(t, m)
       ELSE LET tErr == ft \/ (ctxDone /\ t = "open")
                mErr == fm \/ (ctxDone /\ m = "open")
            IN  [trace  |-> ProviderShutdown(ctxDone, t),
                 metric |-> ProviderShutdown(ctxDone, m),
                 called |-> <<"trace", "metric">>,
                 traceFailed  |-> tErr,
                 metricFailed |-> mErr,
                 err |-> IF tErr /\ mErr THEN "trace; metric"
                         ELSE IF tErr THEN "trace"
                         ELSE IF mErr THEN "metric"
                         ELSE "nil"]

\* What otel.Setup leaves behind: the exporters, whether the global tracer
\* provider and propagator were installed, and whether it returned an error.
SetupResult(enabled, outcome) ==
    IF ~enabled
       THEN [trace |-> "none", metric |-> "none", provider |-> FALSE, ok |-> TRUE]
    ELSE IF outcome = "trace_fail"
       THEN [trace |-> "none", metric |-> "none", provider |-> FALSE, ok |-> FALSE]
    ELSE IF outcome = "metric_fail"
       THEN [trace |-> ProviderShutdown(FALSE, "open"), metric |-> "none",
             provider |-> TRUE, ok |-> FALSE]
       ELSE [trace |-> "open", metric |-> "open", provider |-> TRUE, ok |-> TRUE]

reqRest == <<variant, rpc, depth, req, ctxErr, ctxTraceID, resp, logStatus,
             traceStatus, span, rlog, svc, getDataCalls, cancelledAtEntry,
             pend, panicAt, snapAtPanic, served, recoveredBefore, entered>>

\* main calls otel.Setup once the layers are built; on an error it either
\* carries on without telemetry or (OtelSetupFatal) exits.
OtelSetup(outcome) ==
    /\ ~exited
    /\ mainPc = "notify"
    /\ otelPc = "unset"
    /\ otelEnabled \/ outcome = "ok"
    /\ LET r == SetupResult(otelEnabled, outcome) IN
          /\ traceExp' = r.trace
          /\ metricExp' = r.metric
          /\ tracerProvider' = r.provider
          /\ otelPc' = IF r.ok THEN "ready" ELSE "failed"
    /\ UNCHANGED <<lifeVars, reqRest, traceVars, mapVars, cfgVars,
                   otelEnabled, flushCtx, flushRes>>

OtelSetupFatal(outcome) ==
    /\ ~exited
    /\ mainPc = "notify"
    /\ otelPc = "unset"
    /\ otelEnabled
    /\ outcome # "ok"
    /\ LET r == SetupResult(otelEnabled, outcome) IN
          /\ traceExp' = r.trace
          /\ metricExp' = r.metric
          /\ tracerProvider' = r.provider
    /\ otelPc' = "failed"
    /\ mainPc' = "exited"
    /\ lifeLog' = lifeLog \cup {"failed to setup OpenTelemetry"}
    /\ ProcessExit(1, "main")
    /\ UNCHANGED <<built, signalled, lnPc, lasResult, portFree, inShutdown,
                   lnBound, timerFired, shutdownErr, acceptPc, sigInflight,
                   reqRest, traceVars, mapVars, cfgVars, otelEnabled, flushCtx,
                   flushRes>>

\* Once srv.Shutdown has returned, with or without an error, main calls the
\* telemetry shutdown function under a context with a timeout of its own.
OtelFlush(ft, fm) ==
    /\ ~exited
    /\ mainPc = "shutdown_returned"
    /\ otelPc \in {"ready", "failed"}
    /\ IF otelPc = "ready"
          THEN LET r == OtelShutdown(otelEnabled, FALSE, ft, fm,
                                     traceExp, metricExp) IN
                  /\ traceExp' = r.trace
                  /\ metricExp' = r.metric
                  /\ flushRes' = [called |-> r.called,
                                  traceFailed |-> r.traceFailed,
                                  metricFailed |-> r.metricFailed,
                                  err |-> r.err]
                  /\ flushCtx' = "own timeout"
                  /\ otelPc' = "flushed"
          ELSE /\ ~ft /\ ~fm
               /\ otelPc' = "skipped"
               /\ UNCHANGED <<traceExp, metricExp, flushCtx, flushRes>>
    /\ UNCHANGED <<lifeVars, reqVars, traceVars, mapVars, cfgVars, otelEnabled>>

OtelInit ==
    /\ LifeInit
    /\ variant = "Tracing"
    /\ tracerProvider = FALSE
    /\ ReqIdle
    /\ TraceIdle
    /\ MapIdle
    /\ CfgIdle
    /\ otelEnabled \in BOOLEAN
    /\ otelPc = "unset"
    /\ traceExp = "none"
    /\ metricExp = "none"
    /\ flushCtx = "none"
    /\ flushRes = NoFlush

OtelNext ==
    \/ MainBuild
    \/ \E o \in SetupOutcomes : OtelSetup(o)
    \/ \E o \in SetupOutcomes : OtelSetupFatal(o)
    \/ otelPc # "unset" /\ MainNotify
    \/ MainGo
    \/ Signal
    \/ MainWait
    \/ MainBeginShutdown
    \/ MainCallShutdown
    \/ ShutdownDrained
    \/ ShutdownDeadline
    \/ \E ft, fm \in BOOLEAN : OtelFlush(ft, fm)
    \/ otelPc \in {"flushed", "skipped"} /\ MainAfterShutdown
    \/ ListenerStart
    \/ ListenerBind
    \/ \E c \in ConnIds : Accept(c)
    \/ \E c \in ConnIds : Respond(c)
    \/ ListenerClosed
    \/ ListenerAfterReturn

OtelSpec == OtelInit /\ [][OtelNext]_vars

----------------------------------------------------------------------------
(* Claims about the lifecycle *)

Accepted == {c \in ConnIds : acceptPc[c] # ""}

C1_DrainSafety ==
    /\ \A c \in ConnIds : conns[c] = "aborted" => timerFired
    /\ (mainPc \in {"shutdown_returned", "exited"} /\ ~timerFired)
          => shutdownErr = "nil"
    /\ (exitBy = "main" /\ ~timerFired)
          => /\ exitCode = 0
             /\ \A c \in Accepted : conns[c] = "responded"

\* C1: graceful drain. A request in flight when the signal arrives, and
\* finished before the shutdown timeout fires, has its response delivered
\* (shutdown never cuts a request off before the timeout fires), srv.Shutdown
\* returns nil, and the process eventually exits with code 0.
C1_GracefulDrain ==
    /\ []C1_DrainSafety
    /\ ((sigInflight # {} /\ shutdownErr = "nil") ~> (exited /\ exitCode = 0))

C1_Witness ==
    /\ exited /\ exitCode = 0 /\ shutdownErr = "nil"
    /\ \E c \in sigInflight : conns[c] = "responded"

\* C2: drain timeout. When the timeout fires with a request in flight,
\* srv.Shutdown returns an error; whenever srv.Shutdown returned an error the
\* process has logged it and exits with code 1; the process exits with code 0
\* only after the signal was received and srv.Shutdown returned nil.
C2_DrainTimeout ==
    /\ timerFired => shutdownErr = "context deadline exceeded"
    /\ (exited /\ shutdownErr \notin {"none", "nil"})
          => (exitCode = 1 /\ "shutdown error" \in lifeLog)
    /\ exitCode = 0 => (signalled /\ shutdownErr = "nil")

C2_Witness ==
    /\ exited /\ exitCode = 1 /\ timerFired
    /\ \E c \in ConnIds : conns[c] = "aborted"

\* C3 as stated: no connection is accepted once the signal has been received
\* and the ShuttingDown phase has begun.
C3_NoAcceptInShuttingDown ==
    \A c \in ConnIds : acceptPc[c] \notin ShuttingDownPcs

\* C3 amended: no connection is accepted once main has called srv.Shutdown;
\* every accepted request was accepted before that call.
C3_NoAcceptAfterShutdownCall ==
    \A c \in ConnIds : acceptPc[c] \notin {"draining", "shutdown_returned", "exited"}

C3_Witness ==
    /\ mainPc = "draining" /\ lnPc = "serve"
    /\ \E c \in ConnIds : conns[c] = "inflight"
    /\ \E c \in ConnIds : conns[c] = "idle"

\* C4: in every interleaving, a ListenAndServe that returned an error other
\* than http.ErrServerClosed makes the process exit with code 1, and one that
\* returned http.ErrServerClosed never makes the listener goroutine exit the
\* process.
C4_ListenerExit ==
    /\ (exited /\ lasResult \notin {"none", "ErrServerClosed"}) => exitCode = 1
    /\ lasResult = "ErrServerClosed" => exitBy # "listener"

PhaseRank(p) ==
    CASE p = "Starting" -> 1
      [] p = "Listening" -> 2
      [] p = "ShuttingDown" -> 3
      [] p = "Stopped" -> 4

\* C5: the lifecycle moves only forward through Starting, Listening,
\* ShuttingDown, Stopped (one state at a time, or straight to Stopped when the
\* process exits); ShuttingDown is entered only after the signal; the listener
\* goroutine is started only after config, logger, repository, service,
\* handler and server have been built, in that order.
C5_LifecycleOrder ==
    /\ [][\/ Phase' = Phase
          \/ Phase' = "Stopped"
          \/ PhaseRank(Phase') = PhaseRank(Phase) + 1]_vars
    /\ [](Phase = "ShuttingDown" => signalled)
    /\ [](lnPc # "not_started" => built = BuildOrder)

C5_Witness ==
    /\ Phase = "Stopped" /\ exitBy = "main" /\ lnPc = "finished"
    /\ lifeLog = {"starting server", "server listening",
                  "shutdown signal received", "server stopped gracefully"}

----------------------------------------------------------------------------
(* Claims about request handling *)

\* The request was dispatched to one of the three registered handlers.
Routed == Route(req.method, req.path) \in {"Health", "Ready", "Example"}

PanicEntries == {i \in DOMAIN rlog : rlog[i].msg = "panic recovered"}

\* C6: a call of Service.ProcessExample whose context is already done when
\* the call begins returns a nil result and the context's own error
\* (unwrapped), and Repository.GetData is not called.
C6_CancelledBeforeCall ==
    cancelledAtEntry = "yes" =>
        /\ svc.result = NilResult
        /\ svc.err = CtxError(ctxErr)
        /\ getDataCalls = 0

C6_Witness ==
    /\ cancelledAtEntry = "yes"
    /\ rpc = "example_result"
    /\ svc.err = CtxError("context deadline exceeded")

\* C7: a panic raised in a handler before anything was written is stopped at
\* Recovery: it never unwinds past Recovery, the response is 500 with exactly
\* the generic error envelope, exactly one "panic recovered" record is logged
\* and it is at error level, the process is still running, and the server
\* accepts the next request.
C7_PanicContained ==
    /\ rpc = "unwind" => (depth > 0 /\ Chain[depth] \in {"Logging", "Recovery"})
    /\ (panicAt # "" /\ ~snapAtPanic.wrote /\ rpc \in {"exit", "done"}) =>
          /\ resp.wroteHeader /\ resp.status = 500
          /\ resp.sentHdr.ct = "application/json"
          /\ resp.body = <<ErrorResponse("internal server error")>>
          /\ Cardinality(PanicEntries) = 1
          /\ \A i \in PanicEntries : rlog[i].level = "ERROR"
          /\ ~exited
    /\ (panicAt # "" /\ rpc = "done" /\ served < MaxServed) => ENABLED NewRequest

C7_Witness ==
    /\ recoveredBefore
    /\ rpc = "done"
    /\ panicAt = ""
    /\ req.path = "/api/example"
    /\ resp.status = 200

\* C8: when a panic is captured after the handler has already written part
\* of the response (status line or body), Recovery writes nothing more: the
\* body stays as it was when the panic was raised.
C8_RecoveryWritesOnlyIfUnwritten ==
    (panicAt # "" /\ snapAtPanic.wrote /\ rpc \in {"exit", "done"}) =>
        resp.body = snapAtPanic.body

\* C9: a request dispatched to a handler ends with exactly one envelope in
\* the response body, on every path (success, service error, panic before or
\* after writeJSON).
C9_ExactlyOneEnvelope ==
    (rpc = "done" /\ Routed) => Len(resp.body) = 1

\* C10: every response goes out with a non-empty X-Trace-ID header, in the
\* TraceID variant and in the Tracing variant with or without a provider.
C10_TraceHeaderOnEveryResponse ==
    rpc = "done" => resp.sentHdr.trace # 0

----------------------------------------------------------------------------
(* Claims about concurrent requests *)

Handling == {r \in ConcReqs : cpc[r] = "handling"}

----------------------------------------------------------------------------
(* Claims about the handlers' mapping *)

\* The fixed message of each handler's error envelope.
GenericMessage(h) ==
    CASE h = "Health"  -> "service unhealthy"
      [] h = "Ready"   -> "service not ready"
      [] h = "Example" -> "internal server error"

\* C12: for any two errors the service layer returns to the same handler,
\* the status and the body sent are the same, the body is exactly the
\* handler's generic envelope, and the text of each error is in the log
\* record of its call.
C12_DetailIndependent ==
    (Len(hOut) = 2 /\ hErr[1] # NilErr /\ hErr[2] # NilErr) =>
        /\ hOut[1].resp.status = hOut[2].resp.status
        /\ hOut[1].resp.body = hOut[2].resp.body
        /\ hOut[1].resp.body = <<ErrorResponse(GenericMessage(hName))>>
        /\ \A i \in 1..2 :
              /\ Len(hOut[i].logs) = 1
              /\ hOut[i].logs[1].error = ErrString(hErr[i])
              /\ hOut[i].logs[1].level = "ERROR"

C12_Witness ==
    /\ hName = "Example"
    /\ Len(hOut) = 2
    /\ hErr[1] = CtxError("context canceled")
    /\ hErr[2] = WrapErr("data access error", CtxError("connection refused"))
    /\ hOut[1].resp = hOut[2].resp
    /\ hOut[1].logs # hOut[2].logs

\* C13: /health answers 200 {"status":"healthy"} when CheckHealth returns
\* nil and 503 {"error":"service unhealthy"} when it returns an error;
\* /ready answers 200 {"status":"ready"} and 503 {"error":"service not
\* ready"} in the same way.
C13_HealthReadyMapping ==
    \A i \in 1..Len(hOut) :
        /\ hName = "Health" =>
              IF hErr[i] = NilErr
                 THEN /\ hOut[i].resp.status = 200
                      /\ hOut[i].resp.body = <<HealthResponse("healthy")>>
                 ELSE /\ hOut[i].resp.status = 503
                      /\ hOut[i].resp.body
                            = <<ErrorResponse("service unhealthy")>>
        /\ hName = "Ready" =>
              IF hErr[i] = NilErr
                 THEN /\ hOut[i].resp.status = 200
                      /\ hOut[i].resp.body = <<ReadyResponse("ready")>>
                 ELSE /\ hOut[i].resp.status = 503
                      /\ hOut[i].resp.body
                            = <<ErrorResponse("service not ready")>>

C13_Witness ==
    /\ hName = "Health"
    /\ Len(hOut) = 2
    /\ hErr[1] = NilErr /\ hOut[1].resp.status = 200
    /\ hErr[2] # NilErr /\ hOut[2].resp.status = 503

----------------------------------------------------------------------------
(* Claims about the example endpoint *)

\* The request went to Handler.Example and no panic was raised.
ExampleDone ==
    /\ rpc = "done"
    /\ Route(req.method, req.path) = "Example"
    /\ panicAt = ""

\* C14: GET /api/example with name N answers 200 with message "Hello, N!"
\* and processed = true when the context is not cancelled, N being "World"
\* when the parameter is absent or empty; any error of ProcessExample is
\* answered 500 with the generic envelope.
C14_ExampleMapping ==
    ExampleDone =>
        /\ ctxErr = "none" => svc.err = NilErr
        /\ svc.err = NilErr =>
              /\ resp.status = 200
              /\ Len(resp.body) = 1
              /\ resp.body[1].shape = "ExampleResponse"
              /\ resp.body[1].processed = TRUE
              /\ req.name = "" => resp.body[1].message = "Hello, World!"
              /\ req.name = "Test" => resp.body[1].message = "Hello, Test!"
        /\ svc.err # NilErr =>
              /\ resp.status = 500
              /\ resp.body = <<ErrorResponse("internal server error")>>

C14_Witness ==
    /\ ExampleDone
    /\ req.name = ""
    /\ resp.status = 200
    /\ resp.body[1].message = "Hello, World!"
    /\ served = 1
    /\ ctxErr = "none"

\* C20: whenever ProcessExample fails because the context was cancelled or
\* expired, at whatever point of the call, the error returned is the
\* context's error itself, unwrapped, and the handler answers 500 with the
\* generic envelope.
C20_CancelErrorVerbatim ==
    /\ svc.err # NilErr =>
          /\ svc.err.wrap = ""
          /\ svc.err.cause \in {"context canceled", "context deadline exceeded"}
    /\ (ExampleDone /\ svc.err # NilErr) =>
          /\ resp.status = 500
          /\ resp.body = <<ErrorResponse("internal server error")>>

----------------------------------------------------------------------------
(* Claims about the order of the chain *)

\* The trace middleware of the variant.
TraceElem == IF variant = "Tracing" THEN "Tracing" ELSE "TraceID"

IsPrefix(a, b) ==
    /\ Len(a) <= Len(b)
    /\ \A i \in 1..Len(a) : a[i] = b[i]

\* C15 (as stated): every request enters access logging first, then panic
\* containment, then correlation/tracing injection, then the dispatcher.
C15_LoggingOutermost ==
    IsPrefix(entered, <<"Logging", "Recovery", TraceElem, "mux">>)

\* C15 (amended): every request enters correlation/tracing injection first,
\* then panic containment, then access logging, then the dispatcher, and
\* every request that got past the entries entered all four.
C15_TraceOutermost ==
    /\ IsPrefix(entered, <<TraceElem, "Recovery", "Logging", "mux">>)
    /\ rpc \notin {"idle", "enter"} => Len(entered) = 4

C15_Witness ==
    /\ rpc = "done"
    /\ entered = <<"Tracing", "Recovery", "Logging", "mux">>
    /\ Routed

\* C16: every request runs TraceID (or Tracing), then Recovery, then
\* Logging, then the route handler; when Recovery installs its boundary the
\* trace ID is already in the context and in the response header, and
\* Logging has started (its wrapper exists) only after both.
C16_TraceBeforeRecoveryBeforeLogging ==
    /\ \A i \in 1..Len(entered) :
          entered[i] = <<TraceElem, "Recovery", "Logging", "mux">>[i]
    /\ Len(entered) >= 2 => (ctxTraceID # 0 /\ resp.hdr.trace = ctxTraceID)
    /\ logStatus # 0 <=> Len(entered) >= 3

----------------------------------------------------------------------------
(* Claims about configuration *)

\* The seconds a valid duration text stands for.
Seconds(v) == CASE v = "30s" -> 30 [] v = "2m" -> 120

ValidDuration(v) == v \in {"30s", "2m"}

\* The environment holds only unset variables and valid values.
ValidEnv == \A k \in DurationKeys : env[k] = "" \/ ValidDuration(env[k])

\* C17: with no variable set, config.Load returns port "8080", read timeout
\* 5s, write timeout 10s, idle timeout 120s, shutdown timeout 15s, log level
\* "info" and environment "development"; with any subset set to valid
\* values it returns those values and the default for every other field.
C17_LoadDefaultsAndOverrides ==
    (cfg # NoConfig /\ ValidEnv) =>
        /\ cfg.Port = IF env["PORT"] = "" THEN "8080" ELSE env["PORT"]
        /\ cfg.LogLevel = IF env["LOG_LEVEL"] = "" THEN "info"
                                                  ELSE env["LOG_LEVEL"]
        /\ cfg.Environment = IF env["ENVIRONMENT"] = "" THEN "development"
                                                       ELSE env["ENVIRONMENT"]
        /\ cfg.ReadTimeout = IF env["READ_TIMEOUT"] = "" THEN 5
                             ELSE Seconds(env["READ_TIMEOUT"])
        /\ cfg.WriteTimeout = IF env["WRITE_TIMEOUT"] = "" THEN 10
                              ELSE Seconds(env["WRITE_TIMEOUT"])
        /\ cfg.IdleTimeout = IF env["IDLE_TIMEOUT"] = "" THEN 120
                             ELSE Seconds(env["IDLE_TIMEOUT"])
        /\ cfg.ShutdownTimeout = IF env["SHUTDOWN_TIMEOUT"] = "" THEN 15
                                 ELSE Seconds(env["SHUTDOWN_TIMEOUT"])

C17_Witness ==
    /\ cfg # NoConfig
    /\ env = [k \in EnvKeys |->
                 CASE k = "PORT"             -> "9000"
                   [] k = "LOG_LEVEL"        -> "debug"
                   [] k = "ENVIRONMENT"      -> "production"
                   [] k = "SHUTDOWN_TIMEOUT" -> "30s"
                   [] OTHER                  -> ""]
    /\ cfg.Port = "9000" /\ cfg.LogLevel = "debug"
    /\ cfg.Environment = "production"
    /\ cfg.ShutdownTimeout = 30 /\ cfg.ReadTimeout = 5
    /\ cfg.WriteTimeout = 10 /\ cfg.IdleTimeout = 120

\* C19: a request whose method and path are not one of GET /health,
\* GET /ready, GET /api/example (a registered path with another method
\* included) is answered 404 and reaches no handler.
C19_UnmatchedIs404 ==
    (rpc = "done" /\ ~Routed /\ panicAt = "") =>
        /\ resp.status = 404
        /\ pend = NoPend
        /\ svc = NoSvc

C21_EveryOperationChecksContext ==
    [][/\ (rpc \in {"h_health", "h_ready"} /\ ctxErr # "none"
             /\ rpc' = "write_header")
          => pend'.status # 200
       /\ (rpc = "svc_check1" /\ ctxErr # "none" /\ rpc' = "example_result")
          => /\ svc'.err = CtxError(ctxErr)
             /\ getDataCalls' = getDataCalls]_vars

\* C22: a cancellation or timeout of the request context at any point before
\* the second checkpoint of ProcessExample makes the call return an error and
\* a nil result; a success is returned only when the context was live at both
\* checkpoints and the repository was called; the cancellation itself aborts
\* nothing: the goroutine stays where it is and the work done is kept.
C22_MidOperationCancellation ==
    [][/\ (/\ rpc \in {"svc_check1", "svc_repo", "svc_check2"}
           /\ ctxErr # "none"
           /\ rpc' = "example_result")
          => (svc'.result = NilResult /\ svc'.err # NilErr)
       /\ (rpc # "example_result" /\ rpc' = "example_result"
             /\ svc'.err = NilErr)
          => /\ rpc = "svc_check2"
             /\ ctxErr = "none"
             /\ cancelledAtEntry = "no"
             /\ getDataCalls = 1
       /\ (ctxErr = "none" /\ ctxErr' # "none")
          => UNCHANGED <<rpc, svc, getDataCalls, rlog>>]_vars

C22_Witness ==
    /\ rpc = "example_result"
    /\ cancelledAtEntry = "no"
    /\ getDataCalls = 1
    /\ ctxErr = "context deadline exceeded"
    /\ svc.result = NilResult
    /\ svc.err = CtxError(ctxErr)

\* C23: a request that has entered the Logging middleware and is finished has
\* exactly one access-log entry ("http request"), whichever way the inner
\* handler ended, a panic included.
C23_OneAccessLogPerRequest ==
    (rpc = "done" /\ \E i \in DOMAIN entered : entered[i] = "Logging") =>
        Cardinality({i \in DOMAIN rlog : rlog[i].msg = "http request"}) = 1

\* C24: once a request has entered the trace middleware it has a correlation
\* identifier, generated or extracted once: GetTraceID on the request context
\* yields a non-empty value that stays the same until the request is finished
\* and equals the X-Trace-ID header of the response; before the middleware has
\* run, GetTraceID yields the empty string.
C24_OneTraceIDEverywhere ==
    /\ [](/\ (rpc # "idle" /\ entered # <<>>) =>
                /\ ctxTraceID # 0
                /\ resp.hdr.trace = ctxTraceID
          /\ (rpc = "enter" /\ entered = <<>>) => ctxTraceID = 0)
    /\ [][(entered # <<>> /\ entered' # <<>>) =>
              ctxTraceID' = ctxTraceID]_vars

\* C25: in the Tracing variant the span of a request is ended exactly once:
\* it is never ended twice, it is not ended while the request is still inside
\* the middleware, and every finished request (answered normally, answered
\* with an error status, or after a handler panic, which the inner Recovery
\* catches so that no panic unwinds through Tracing) has its span ended.
C25_SpanEndedExactlyOnce ==
    variant = "Tracing" =>
        /\ span.ends <= 1
        /\ (span.ends = 1 => (span.started /\ depth = 0))
        /\ (rpc = "done" => (span.started /\ span.ends = 1))
        /\ (rpc = "unwind" => Chain[depth] # "Tracing")

C25_Witness ==
    /\ variant = "Tracing"
    /\ rpc = "done"
    /\ panicAt \in PanicPcs
    /\ span.ends = 1
    /\ resp.status = 500

\* C26: when the Tracing middleware has finished a request, the status code
\* recorded on the span is the status code the client received, and the span
\* status is "error" exactly when that code is at least 400; also for a
\* response written without WriteHeader and for a handler that panics after
\* it has written a status.
C26_SpanStatusIsClientStatus ==
    (variant = "Tracing" /\ rpc = "done") =>
        /\ span.code = resp.status
        /\ span.status = (IF resp.status >= 400 THEN "error" ELSE "ok")

\* C27: an error the repository returns is never swallowed: the service
\* operation then returns a non-nil error and no result (CheckHealth and
\* CheckReady the repository's error itself, ProcessExample that error
\* wrapped as "data access error" and still having it as its cause), and the
\* handler answers with a 5xx status.
C27_RepositoryErrorNotSwallowed ==
    \A i \in DOMAIN hOut :
        hErr[i] # NilErr =>
            /\ hOut[i].svc.err # NilErr
            /\ hOut[i].svc.err.cause = hErr[i].cause
            /\ hOut[i].svc.result = NilResult
            /\ (hName = "Example") = (hOut[i].svc.err.wrap = "data access error")
            /\ hOut[i].resp.status >= 500
            /\ hOut[i].resp.status <= 599

C27_Witness ==
    /\ Len(hOut) = 2
    /\ hName = "Example"
    /\ hErr[1] = NilErr
    /\ hOut[1].resp.status = 200
    /\ hErr[2].cause = "connection refused"
    /\ hOut[2].svc.err = WrapErr("data access error", hErr[2])
    /\ hOut[2].resp.status = 500

\* C28: the status code a status-capturing responseWriter has recorded when
\* its middleware uses it equals the status code sent to the client: the
\* status of every access-log entry of a finished request, and the status
\* code Tracing's wrapper holds when the request is finished, are the status
\* of the response (200 without WriteHeader, the mux's own 404, the first
\* code when WriteHeader is called more than once).
C28_RecordedStatusIsSentStatus ==
    rpc = "done" =>
        /\ \A i \in DOMAIN rlog :
              rlog[i].msg = "http request" => rlog[i].status = resp.status
        /\ variant = "Tracing" => traceStatus = resp.status

\* C29: config.Load always returns a configuration, and a variable that is
\* empty or does not parse for its field's type (a malformed duration, a
\* malformed boolean) gives that field its default; such a variable changes
\* no other field: the configuration is the one loaded with that variable
\* unset.
C29_MalformedFallsBackToDefault ==
    LET Malformed(k) ==
            /\ env[k] # ""
            /\ k \notin StringKeys
            /\ (k \in DurationKeys => env[k] \notin {"30s", "2m"})
            /\ (k = "OTEL_ENABLED" => env[k] \notin {"false", "1"})
        Field(k) ==
            CASE k = "READ_TIMEOUT"     -> cfg.ReadTimeout
              [] k = "WRITE_TIMEOUT"    -> cfg.WriteTimeout
              [] k = "IDLE_TIMEOUT"     -> cfg.IdleTimeout
              [] k = "SHUTDOWN_TIMEOUT" -> cfg.ShutdownTimeout
              [] k = "OTEL_ENABLED"     -> cfg.OtelEnabled
              [] k = "PORT"             -> cfg.Port
              [] k = "LOG_LEVEL"        -> cfg.LogLevel
              [] k = "ENVIRONMENT"      -> cfg.Environment
        Default(k) ==
            CASE k = "READ_TIMEOUT"     -> 5
              [] k = "WRITE_TIMEOUT"    -> 10
              [] k = "IDLE_TIMEOUT"     -> 120
              [] k = "SHUTDOWN_TIMEOUT" -> 15
              [] k = "OTEL_ENABLED"     -> TRUE
              [] k = "PORT"             -> "8080"
              [] k = "LOG_LEVEL"        -> "info"
              [] k = "ENVIRONMENT"      -> "development"
    IN  cfg # NoConfig =>
            \A k \in EnvKeys :
                (env[k] = "" \/ Malformed(k)) =>
                    /\ Field(k) = Default(k)
                    /\ cfg = Load([env EXCEPT ![k] = ""])

C29_Witness ==
    /\ cfg # NoConfig
    /\ env["READ_TIMEOUT"] = "abc"
    /\ env["OTEL_ENABLED"] = "yes"
    /\ env["WRITE_TIMEOUT"] = "30s"
    /\ env["IDLE_TIMEOUT"] = "30"
    /\ cfg.ReadTimeout = 5
    /\ cfg.OtelEnabled = TRUE
    /\ cfg.WriteTimeout = 30
    /\ cfg.IdleTimeout = 120

\* C30: the shutdown function otel.Setup returns does nothing and returns nil
\* when telemetry is disabled; when enabled it calls the trace provider's and
\* then the meter provider's shutdown, both on every call, also when the
\* first fails, and returns an error exactly when one of them failed; when
\* the meter provider cannot be set up after the trace provider was, Setup
\* has shut the trace provider down when it returns its error.
C30_SetupShutdownContract ==
    /\ (otelPc = "flushed" /\ ~otelEnabled) =>
          /\ flushRes.called = <<>>
          /\ flushRes.err = "nil"
          /\ traceExp = "none" /\ metricExp = "none"
          /\ ~tracerProvider
    /\ (otelPc = "flushed" /\ otelEnabled) =>
          /\ flushRes.called = <<"trace", "metric">>
          /\ traceExp = "closed" /\ metricExp = "closed"
          /\ (flushRes.err # "nil") <=>
                (flushRes.traceFailed \/ flushRes.metricFailed)
    /\ (otelPc \in {"failed", "skipped"} /\ tracerProvider) =>
          /\ traceExp = "closed"
          /\ metricExp = "none"
    /\ (otelPc \in {"failed", "skipped"} /\ ~tracerProvider) =>
          /\ traceExp = "none"
          /\ metricExp = "none"

C30_Witness ==
    /\ otelEnabled
    /\ otelPc = "flushed"
    /\ flushRes.traceFailed
    /\ ~flushRes.metricFailed
    /\ flushRes.called = <<"trace", "metric">>
    /\ flushRes.err = "trace"
    /\ metricExp = "closed"

=============================================================================
